---- MODULE Spec2Model ----
(***************************************************************************)
(* Model of pyramid.traversal (src/src/pyramid/traversal.py): path         *)
(* splitting and normalisation, segment quoting and joining, the lineage   *)
(* walk, and the ResourceTreeTraverser state machine with its callers      *)
(* traverse() and find_resource().                                         *)
(*                                                                         *)
(* A Python str is a sequence of one-character strings; a path tuple is a  *)
(* sequence of such sequences.  A WSGI ("latin-1") string carries one      *)
(* byte per character: "b_C3" and "b_A9" stand for the bytes 0xC3 and     *)
(* 0xA9, which together are the UTF-8 encoding of the character "e_acute". *)
(***************************************************************************)
EXTENDS Integers, Sequences, FiniteSets, TLC

VARIABLES
    pc,           \* position: "idle", "loop", one of the return statements, "done"
    entry,        \* the API function the caller invoked
    names,        \* __name__ of every node of the tree supplied by the caller
    resource,     \* the resource argument of find_resource / traverse
    path,         \* the path argument (tagged: str or tuple)
    request,      \* the request handed to ResourceTreeTraverser.__call__
    root,         \* self.root
    ob, vroot, i, \* loop locals of __call__
    vpath_tuple, vroot_tuple, vroot_idx, subpath,
    lookups,      \* every ob.__getitem__(segment) call made, in order
    result,       \* the dictionary returned by __call__
    outcome,      \* "none", "return" or the exception raised by the entry point
    ret,          \* value returned by a pure entry point
    parents,      \* __parent__ of every node, as the caller of find_root set it
    location,     \* loop variable of find_root: the location lineage() yielded
    _segment_cache,   \* module-level dict of quote_path_segment
    join_cache,   \* the lru_cache of _join_path_tuple
    workers       \* per thread: the call in progress and its position

\* state of the lineage walk and of the concurrent quoting threads
auxVars == <<parents, location, _segment_cache, join_cache, workers>>

vars == <<pc, entry, names, resource, path, request, root, ob, vroot, i,
          vpath_tuple, vroot_tuple, vroot_idx, subpath, lookups, result,
          outcome, ret, parents, location, _segment_cache, join_cache,
          workers>>

----------------------------------------------------------------------------
(* Bounds *)
MaxLen == 6        \* length of the raw strings given to split_path_info
MaxSegs == 2       \* segments of a requested path
MaxTupleLen == 2   \* segments (after the '' sentinel) of a path tuple to join
MaxWorkers == 2    \* threads calling quote_path_segment / _join_path_tuple

----------------------------------------------------------------------------
(* Module constants *)
slash == <<"/">>
empty == <<>>
VIEW_SELECTOR == <<"@", "@">>
PATH_SEGMENT_SAFE == {"~", "!", "$", "&", "'", "(", ")", "*", "+", ",", ";", "=", ":", "@"}

----------------------------------------------------------------------------
(* Python str / tuple primitives *)
Min(a, b) == IF a < b THEN a ELSE b

\* s[:stop] for stop >= 0 (clamped at the length)
SliceTo(s, stop) == SubSeq(s, 1, Min(stop, Len(s)))

\* s[start:] for start >= 0
SliceFrom(s, start) == SubSeq(s, start + 1, Len(s))

RECURSIVE LStrip(_)
LStrip(s) == IF s # <<>> /\ Head(s) = "/" THEN LStrip(Tail(s)) ELSE s

RECURSIVE RStrip(_)
RStrip(s) ==
    IF s # <<>> /\ s[Len(s)] = "/" THEN RStrip(SubSeq(s, 1, Len(s) - 1)) ELSE s

\* path.strip('/'): every leading and trailing slash is removed
Strip(s) == RStrip(LStrip(s))

\* s.split('/'): always at least one (possibly empty) segment
RECURSIVE SplitAcc(_, _, _)
SplitAcc(s, cur, acc) ==
    IF s = <<>> THEN Append(acc, cur)
    ELSE IF Head(s) = "/" THEN SplitAcc(Tail(s), <<>>, Append(acc, cur))
    ELSE SplitAcc(Tail(s), Append(cur, Head(s)), acc)

Split(s) == SplitAcc(s, <<>>, <<>>)

\* '/'.join(segs)
RECURSIVE Join(_)
Join(segs) ==
    IF segs = <<>> THEN <<>>
    ELSE IF Len(segs) = 1 THEN segs[1]
    ELSE segs[1] \o slash \o Join(Tail(segs))

----------------------------------------------------------------------------
(* split_path_info *)
RECURSIVE CleanLoop(_, _)

\* the loop with the '..' branch treated like '.'
CleanLoopNoPop(segs, clean) ==
    IF segs = <<>> THEN clean
    ELSE LET segment == Head(segs) IN
         IF segment = <<>> \/ segment = <<".">> \/ segment = <<".", ".">>
         THEN CleanLoop(Tail(segs), clean)
         ELSE CleanLoop(Tail(segs), Append(clean, segment))

CleanLoop(segs, clean) ==
    IF segs = <<>> THEN clean
    ELSE LET segment == Head(segs) IN
         IF segment = <<>> \/ segment = <<".">>
         THEN CleanLoop(Tail(segs), clean)
         ELSE IF segment = <<".", ".">>
         THEN CleanLoop(Tail(segs),
                        IF clean # <<>> THEN SubSeq(clean, 1, Len(clean) - 1)
                        ELSE clean)
         ELSE CleanLoop(Tail(segs), Append(clean, segment))

split_path_info(p) == CleanLoop(Split(Strip(p)), <<>>)

----------------------------------------------------------------------------
(* Segment codec *)
\* a str that marks a raised exception; a function returning a tuple marks
\* it with the one-element tuple holding that str
DecodeErr == <<"URLDecodeError">>
EncodeErr == <<"UnicodeEncodeError">>

IsAscii(c) == c \notin {"e_acute", "b_C3", "b_A9"}
IsAlnum(c) == c \in {"x", "y", "0", "2", "3", "5", "9", "A", "C", "E", "F"}

\* text.encode('utf-8'), one character at a time
Utf8Bytes(c) == IF c = "e_acute" THEN <<"b_C3", "b_A9">> ELSE <<c>>

\* the two hex digits of a byte
ByteHex(b) ==
    CASE b = "/" -> <<"2", "F">>
      [] b = " " -> <<"2", "0">>
      [] b = "%" -> <<"2", "5">>
      [] b = "." -> <<"2", "E">>
      [] b = "b_C3" -> <<"C", "3">>
      [] b = "b_A9" -> <<"A", "9">>

HexPairs == {<<"2", "F">>, <<"2", "0">>, <<"2", "5">>, <<"2", "E">>,
             <<"C", "3">>, <<"A", "9">>}

HexByte(h) == CHOOSE b \in {"/", " ", "%", ".", "b_C3", "b_A9"} : ByteHex(b) = h

RECURSIVE QuoteBytes(_)
QuoteBytes(bs) ==
    IF bs = <<>> THEN <<>>
    ELSE <<"%">> \o ByteHex(Head(bs)) \o QuoteBytes(Tail(bs))

\* url_quote(segment, safe)
RECURSIVE url_quote(_, _)
url_quote(s, safe) ==
    IF s = <<>> THEN <<>>
    ELSE (IF IsAlnum(Head(s)) \/ Head(s) \in safe THEN <<Head(s)>>
          ELSE QuoteBytes(Utf8Bytes(Head(s))))
         \o url_quote(Tail(s), safe)

\* quote_path_segment with the default safe set; the module-level cache only
\* stores what url_quote computes
quote_path_segment(segment) == url_quote(segment, PATH_SEGMENT_SAFE)

\* unquote_bytes_to_wsgi: percent-decode the WHOLE string to bytes
RECURSIVE unquote_bytes_to_wsgi(_)
unquote_bytes_to_wsgi(s) ==
    IF s = <<>> THEN <<>>
    ELSE IF Head(s) = "%" /\ Len(s) >= 3 /\ SubSeq(s, 2, 3) \in HexPairs
    THEN <<HexByte(SubSeq(s, 2, 3))>> \o unquote_bytes_to_wsgi(SubSeq(s, 4, Len(s)))
    ELSE <<Head(s)>> \o unquote_bytes_to_wsgi(Tail(s))

\* decode_path_info: path.encode('latin-1').decode('utf-8')
RECURSIVE decode_path_info(_)
decode_path_info(s) ==
    IF s = <<>> THEN <<>>
    ELSE IF IsAscii(Head(s))
    THEN LET rest == decode_path_info(Tail(s)) IN
         IF rest = DecodeErr THEN DecodeErr ELSE <<Head(s)>> \o rest
    ELSE IF Head(s) = "b_C3" /\ Len(s) >= 2 /\ s[2] = "b_A9"
    THEN LET rest == decode_path_info(SubSeq(s, 3, Len(s))) IN
         IF rest = DecodeErr THEN DecodeErr ELSE <<"e_acute">> \o rest
    ELSE DecodeErr

\* traversal_path_info: a failed decode raises URLDecodeError
traversal_path_info(p) ==
    LET decoded == decode_path_info(p) IN
    IF decoded = DecodeErr THEN <<DecodeErr>> ELSE split_path_info(decoded)

\* traversal_path: ascii-encode, unquote the whole path, then decode and split
traversal_path(p) ==
    IF \E k \in 1..Len(p) : ~IsAscii(p[k]) THEN <<EncodeErr>>
    ELSE traversal_path_info(unquote_bytes_to_wsgi(p))

\* the join with a slash always put in front
_join_path_tuple_slash_first(t) ==
    IF t = <<>> THEN slash
    ELSE slash \o Join([k \in 1..Len(t) |-> quote_path_segment(t[k])])

\* _join_path_tuple: tuple and '/'.join([quote_path_segment(x) ...]) or '/'
_join_path_tuple(t) ==
    LET joined == Join([k \in 1..Len(t) |-> quote_path_segment(t[k])]) IN
    IF t # <<>> /\ joined # <<>> THEN joined ELSE slash

----------------------------------------------------------------------------
(* The resource tree supplied by the caller: node 0 is the root, 1 and 3   *)
(* are its children, 2 is a child of 1.  Node 3 has no __getitem__.        *)
Nodes == 0..3
NoNode == -1     \* None

__parent__(n) == CASE n = 0 -> NoNode [] n = 1 -> 0 [] n = 2 -> 1 [] n = 3 -> 0

HasGetitem(n) == n # 3

\* ob.__getitem__(segment): the child stored under that name, or NoNode for
\* KeyError
getitem(nm, o, segment) ==
    LET kids == {c \in Nodes : __parent__(c) = o /\ nm[c] = segment} IN
    IF kids = {} THEN NoNode ELSE CHOOSE c \in kids : TRUE

\* lineage(resource): the resource, its parent, ... up to the parentless node
RECURSIVE lineage(_)
lineage(n) ==
    IF __parent__(n) = NoNode THEN <<n>> ELSE <<n>> \o lineage(__parent__(n))

\* find_root: the first location of the lineage whose __parent__ is None
find_root(n) ==
    LET l == lineage(n)
        k == CHOOSE j \in 1..Len(l) :
                 /\ __parent__(l[j]) = NoNode
                 /\ \A m \in 1..(j - 1) : __parent__(l[m]) # NoNode
    IN l[k]

\* _resource_path_list / resource_path_tuple without extra elements:
\* [loc.__name__ or '' for loc in lineage(resource)], reversed
resource_path_tuple(nm, n) ==
    LET l == lineage(n) IN [k \in 1..Len(l) |-> nm[l[Len(l) + 1 - k]]]

resource_path(nm, n) == _join_path_tuple(resource_path_tuple(nm, n))

----------------------------------------------------------------------------
(* Argument values: a Python value that may be missing, a str or a tuple *)
Absent == [kind |-> "absent", v |-> <<>>]
Str(x) == [kind |-> "str", v |-> x]
Tup(x) == [kind |-> "tuple", v |-> x]

NoMatchdict == [present |-> FALSE, traverse |-> Absent, subpath |-> Absent]
Matchdict(t, sp) == [present |-> TRUE, traverse |-> t, subpath |-> sp]

NoRequest == [PATH_INFO |-> <<>>, matchdict |-> NoMatchdict, vh_root |-> Absent]

NoResult == [context |-> NoNode, view_name |-> <<>>, subpath |-> <<>>,
             traversed |-> <<>>, virtual_root |-> NoNode,
             virtual_root_path |-> <<>>, root |-> NoNode]

RetPcs == {"ret_view_selector", "ret_no_getitem", "ret_key_error", "ret_exhausted"}

----------------------------------------------------------------------------
(* Input sets *)
NameSet == {<<"x">>, <<"y">>, <<"x", "x">>, <<"@", "@", "x">>, <<"x", "/", "y">>,
            <<".", ".">>}

\* trees whose sibling names differ; the root's __name__ is None
Trees == {nm \in [Nodes -> NameSet \cup {<<>>}] :
             /\ nm[0] = <<>>
             /\ \A n \in Nodes \ {0} : nm[n] # <<>>
             /\ nm[1] # nm[3]}

SegSet == {<<"x">>, <<"y">>, <<"@", "@", "x">>, <<"@", "@">>, <<".", ".">>}
SegSeqs(n) == UNION {[1..k -> SegSet] : k \in 0..n}
AbsPaths == {slash \o Join(ss) : ss \in SegSeqs(MaxSegs)}
RelPaths == {Join(ss) : ss \in SegSeqs(MaxSegs)}

BadBytes == <<"/", "b_C3">>      \* a path that is not valid UTF-8
VhRoots == {slash, <<"/", "x">>, <<"/", "x", "/", "y">>, BadBytes}

RawChars == {"/", ".", "x"}
RawStrings == UNION {[1..k -> RawChars] : k \in 0..MaxLen}

QChars == {"x", "/", " ", "e_acute"}
QSegs == UNION {[1..k -> QChars] : k \in 1..2}
PathTuples == {<<<<>>>> \o t : t \in UNION {[1..k -> QSegs] : k \in 0..MaxTupleLen}}

\* the tuples handed to _join_path_tuple: absolute, relative and empty
JoinTuples == PathTuples \cup {Tail(t) : t \in PathTuples}

----------------------------------------------------------------------------
\* PATH_SAFE = PATH_SEGMENT_SAFE + "/"
PATH_SAFE == PATH_SEGMENT_SAFE \cup {"/"}

\* a segment that is neither str nor bytes; v is what str(segment) gives
Other(x) == [kind |-> "other", v |-> x]

Workers == 1..MaxWorkers

\* a thread that is not inside quote_path_segment or _join_path_tuple
IdleWorker == [pc |-> "idle", call |-> "none", tuple |-> <<>>, k |-> 0,
               segment |-> Absent, safe |-> {}, parts |-> <<>>,
               result |-> <<>>, value |-> <<>>, hit |-> FALSE]

Init ==
    /\ parents = [n \in Nodes |-> __parent__(n)]
    /\ location = NoNode
    /\ _segment_cache = {}
    /\ join_cache = {}
    /\ workers = [w \in Workers |-> IdleWorker]
    /\ pc = "idle"
    /\ entry = "none"
    /\ names = [n \in Nodes |-> <<>>]
    /\ resource = NoNode
    /\ path = Absent
    /\ request = NoRequest
    /\ root = NoNode
    /\ ob = NoNode
    /\ vroot = NoNode
    /\ i = 0
    /\ vpath_tuple = <<>>
    /\ vroot_tuple = <<>>
    /\ vroot_idx = -1
    /\ subpath = <<>>
    /\ lookups = <<>>
    /\ result = NoResult
    /\ outcome = "none"
    /\ ret = <<>>

travVars == <<request, root, ob, vroot, i, vpath_tuple, vroot_tuple, vroot_idx,
              subpath, lookups, result>>

(* ResourceTreeTraverser(root0).__call__(req) up to the start of the loop  *)
(* (lines 613-673): the path and subpath are taken from the matchdict or   *)
(* from PATH_INFO, the virtual root header is prefixed, and the combined   *)
(* path is split.                                                          *)
TraverserBegin(root0, req) ==
    LET md == req.matchdict
        path_info == decode_path_info(req.PATH_INFO)
        path0 == IF md.present
                 THEN IF md.traverse.kind = "absent" \/ md.traverse.v = <<>>
                      THEN slash
                      ELSE IF md.traverse.kind = "tuple"
                      THEN slash \o Join(md.traverse.v)
                      ELSE md.traverse.v
                 ELSE IF path_info # <<>> THEN path_info ELSE slash
        subpath0 == IF md.present /\ md.subpath.kind = "tuple" THEN md.subpath.v
                    ELSE IF md.present /\ md.subpath.kind = "str"
                    THEN split_path_info(md.subpath.v)
                    ELSE <<>>
        has_vh == req.vh_root.kind = "str"
        vroot_path == decode_path_info(req.vh_root.v)
        vtuple == IF has_vh THEN split_path_info(vroot_path) ELSE <<>>
        vpath == IF has_vh THEN vroot_path \o path0 ELSE path0
    IN  /\ request' = req
        /\ lookups' = <<>>
        /\ result' = NoResult
        /\ IF ~md.present /\ path_info = DecodeErr
           THEN /\ pc' = "done"
                /\ outcome' = "URLDecodeError"
                /\ UNCHANGED <<root, ob, vroot, i, vpath_tuple, vroot_tuple,
                               vroot_idx, subpath>>
           ELSE IF has_vh /\ vroot_path = DecodeErr
           THEN /\ pc' = "done"
                /\ outcome' = "UnicodeDecodeError"
                /\ subpath' = subpath0
                /\ UNCHANGED <<root, ob, vroot, i, vpath_tuple, vroot_tuple,
                               vroot_idx>>
           ELSE /\ pc' = "loop"
                /\ outcome' = "none"
                /\ subpath' = subpath0
                /\ vroot_tuple' = vtuple
                /\ vroot_idx' = IF has_vh THEN Len(vtuple) - 1 ELSE -1
                /\ root' = root0
                /\ ob' = root0
                /\ vroot' = root0
                /\ i' = 0
                /\ vpath_tuple' = IF vpath = slash THEN <<>>
                                  ELSE split_path_info(vpath)

\* traverse(res, p): a tuple is joined, an absolute path starts at the root,
\* and the path becomes the PATH_INFO of a blank request (percent-decoded)
TraverseBegin(nm, res, p) ==
    LET pstr == IF p.kind = "tuple"
                THEN (IF p.v # <<>> THEN _join_path_tuple(p.v) ELSE <<>>)
                ELSE p.v
        start == IF pstr # <<>> /\ pstr[1] = "/" THEN find_root(res) ELSE res
        req == [PATH_INFO |-> unquote_bytes_to_wsgi(pstr),
                matchdict |-> NoMatchdict, vh_root |-> Absent]
    IN TraverserBegin(start, req)

\* find_resource(res, p) up to the call of the traverser
FindResourceCall(nm, res, p) ==
    /\ entry' = "find_resource"
    /\ names' = nm
    /\ resource' = res
    /\ path' = p
    /\ ret' = <<>>
    /\ TraverseBegin(nm, res, p)

CallFindResourceStr ==
    /\ pc = "idle"
    /\ \E nm \in Trees, res \in Nodes :
           \E p \in AbsPaths \cup RelPaths \cup {resource_path(nm, n) : n \in Nodes} :
               FindResourceCall(nm, res, Str(p))
    /\ UNCHANGED auxVars

CallFindResourceTuple ==
    /\ pc = "idle"
    /\ \E nm \in Trees, res \in Nodes :
           \E t \in {<<>>} \cup {resource_path_tuple(nm, n) : n \in Nodes} :
               FindResourceCall(nm, res, Tup(t))
    /\ UNCHANGED auxVars

\* the router calls the traverser of the root with the incoming request
TraverserCall(nm, req) ==
    /\ entry' = "traverser"
    /\ names' = nm
    /\ resource' = 0
    /\ path' = Absent
    /\ ret' = <<>>
    /\ TraverserBegin(0, req)

CallTraverser ==
    /\ pc = "idle"
    /\ \E nm \in Trees :
           \E pinfo \in AbsPaths \cup {<<>>, BadBytes} :
               \/ TraverserCall(nm, [PATH_INFO |-> pinfo, matchdict |-> NoMatchdict,
                                     vh_root |-> Absent])
               \/ \E vh \in VhRoots :
                     TraverserCall(nm, [PATH_INFO |-> pinfo, matchdict |-> NoMatchdict,
                                       vh_root |-> Str(vh)])
    /\ UNCHANGED auxVars

MdTraverseStrs == {<<>>, <<"/", "x", "/", "y">>, <<"x", "/", "@", "@">>}
MdTraverseTuples == {<<>>, <<<<"x">>, <<"y">>>>, <<<<"x", "/", "y">>>>}
MdSubpathStrs == {<<>>, <<"y">>, <<"/", "y", "/", ".", ".", "/", "x", "/">>}
MdSubpathTuples == {<<>>, <<<<"y">>>>, <<<<"y">>, <<".", ".">>>>}

MdValues(kind, strs, tuples) ==
    IF kind = "str" THEN strs ELSE IF kind = "tuple" THEN tuples ELSE {<<>>}

MdKinds == {"absent", "str", "tuple"}

CallTraverserMatchdict ==
    /\ pc = "idle"
    /\ \E nm \in Trees, tk \in MdKinds, sk \in MdKinds :
           \E tv \in MdValues(tk, MdTraverseStrs, MdTraverseTuples),
              sv \in MdValues(sk, MdSubpathStrs, MdSubpathTuples),
              vh \in {Absent, Str(<<"/", "x">>)} :
               TraverserCall(nm, [PATH_INFO |-> <<"/", "y">>,
                                 matchdict |-> Matchdict([kind |-> tk, v |-> tv],
                                                         [kind |-> sk, v |-> sv]),
                                 vh_root |-> vh])
    /\ UNCHANGED auxVars

----------------------------------------------------------------------------
(* The loop of __call__ (lines 674-713), one action per way an iteration   *)
(* can end, and the return after the loop (lines 715-723).                 *)
segment == vpath_tuple[i + 1]

\* the early-return dictionary with the subpath slice taken one segment early
StopRecordSubpathFromStop(view_name) ==
    [context |-> ob,
     view_name |-> view_name,
     subpath |-> SliceFrom(vpath_tuple, i),
     traversed |-> SliceTo(vpath_tuple, vroot_idx + i + 1),
     virtual_root |-> vroot,
     virtual_root_path |-> vroot_tuple,
     root |-> root]

\* the dictionary built by the three early returns
StopRecord(view_name) ==
    [context |-> ob,
     view_name |-> view_name,
     subpath |-> SliceFrom(vpath_tuple, i + 1),
     traversed |-> SliceTo(vpath_tuple, vroot_idx + i + 1),
     virtual_root |-> vroot,
     virtual_root_path |-> vroot_tuple,
     root |-> root]

loopFrame == <<entry, names, resource, path, request, root, vpath_tuple,
               vroot_tuple, vroot_idx, subpath, outcome, ret>>

\* the view selector test made only after a failed child lookup
LoopViewSelectorAfterLookup ==
    /\ pc = "loop"
    /\ i < Len(vpath_tuple)
    /\ SliceTo(segment, 2) = VIEW_SELECTOR
    /\ lookups' = Append(lookups, [ob |-> ob, segment |-> segment,
                                   next |-> getitem(names, ob, segment)])
    /\ result' = StopRecord(SliceFrom(segment, 2))
    /\ pc' = "ret_view_selector"
    /\ UNCHANGED <<loopFrame, ob, vroot, i>>
    /\ UNCHANGED auxVars

LoopViewSelector ==
    /\ pc = "loop"
    /\ i < Len(vpath_tuple)
    /\ SliceTo(segment, 2) = VIEW_SELECTOR
    /\ result' = StopRecord(SliceFrom(segment, 2))
    /\ pc' = "ret_view_selector"
    /\ UNCHANGED <<loopFrame, ob, vroot, i, lookups>>
    /\ UNCHANGED auxVars

LoopNoGetitem ==
    /\ pc = "loop"
    /\ i < Len(vpath_tuple)
    /\ SliceTo(segment, 2) # VIEW_SELECTOR
    /\ ~HasGetitem(ob)
    /\ result' = StopRecord(segment)
    /\ pc' = "ret_no_getitem"
    /\ UNCHANGED <<loopFrame, ob, vroot, i, lookups>>
    /\ UNCHANGED auxVars

LoopKeyError ==
    /\ pc = "loop"
    /\ i < Len(vpath_tuple)
    /\ SliceTo(segment, 2) # VIEW_SELECTOR
    /\ HasGetitem(ob)
    /\ getitem(names, ob, segment) = NoNode
    /\ lookups' = Append(lookups, [ob |-> ob, segment |-> segment, next |-> NoNode])
    /\ result' = StopRecord(segment)
    /\ pc' = "ret_key_error"
    /\ UNCHANGED <<loopFrame, ob, vroot, i>>
    /\ UNCHANGED auxVars

LoopDescend ==
    /\ pc = "loop"
    /\ i < Len(vpath_tuple)
    /\ SliceTo(segment, 2) # VIEW_SELECTOR
    /\ HasGetitem(ob)
    /\ LET next == getitem(names, ob, segment) IN
        /\ next # NoNode
        /\ lookups' = Append(lookups, [ob |-> ob, segment |-> segment, next |-> next])
        /\ vroot' = IF i = vroot_idx THEN next ELSE vroot
        /\ ob' = next
    /\ i' = i + 1
    /\ UNCHANGED <<loopFrame, pc, result>>
    /\ UNCHANGED auxVars

\* the final return with the matchdict subpath forgotten
LoopExhaustedEmptySubpath ==
    /\ pc = "loop"
    /\ i = Len(vpath_tuple)
    /\ result' = [context |-> ob,
                  view_name |-> empty,
                  subpath |-> <<>>,
                  traversed |-> vpath_tuple,
                  virtual_root |-> vroot,
                  virtual_root_path |-> vroot_tuple,
                  root |-> root]
    /\ pc' = "ret_exhausted"
    /\ UNCHANGED <<loopFrame, ob, vroot, i, lookups>>
    /\ UNCHANGED auxVars

LoopExhausted ==
    /\ pc = "loop"
    /\ i = Len(vpath_tuple)
    /\ result' = [context |-> ob,
                  view_name |-> empty,
                  subpath |-> subpath,
                  traversed |-> vpath_tuple,
                  virtual_root |-> vroot,
                  virtual_root_path |-> vroot_tuple,
                  root |-> root]
    /\ pc' = "ret_exhausted"
    /\ UNCHANGED <<loopFrame, ob, vroot, i, lookups>>
    /\ UNCHANGED auxVars

\* find_resource after traverse() returned (lines 96-100)
FindResourceRaise ==
    /\ entry \in {"find_resource", "virtual_root"}
    /\ pc \in RetPcs
    /\ result.view_name # <<>>
    /\ pc' = "done"
    /\ outcome' = "KeyError"
    /\ UNCHANGED <<entry, names, resource, path, travVars, ret>>
    /\ UNCHANGED auxVars

FindResourceReturn ==
    /\ entry \in {"find_resource", "virtual_root"}
    /\ pc \in RetPcs
    /\ result.view_name = <<>>
    /\ pc' = "done"
    /\ outcome' = "return"
    /\ ret' = result.context
    /\ UNCHANGED <<entry, names, resource, path, travVars>>
    /\ UNCHANGED auxVars

----------------------------------------------------------------------------
(* ResourceURL and virtual_root *)
StartsWith(s, pre) == Len(pre) <= Len(s) /\ SubSeq(s, 1, Len(pre)) = pre
EndsWith(s, suf) ==
    Len(suf) <= Len(s) /\ SubSeq(s, Len(s) - Len(suf) + 1, Len(s)) = suf

UrlVhRoots == {<<>>, slash, <<"/", "x">>, <<"/", "x", "/">>,
               <<"/", "x", "/", "y">>, <<"/", "y">>}

\* ResourceURL(resource, request).__init__: the four IResourceURL attributes
ResourceURL(nm, res, vh) ==
    LET tuple0 == resource_path_tuple(nm, res)
        path0 == _join_path_tuple(tuple0)
        physical_path_tuple == IF tuple0 # <<<<>>>> THEN Append(tuple0, <<>>)
                               ELSE tuple0
        physical_path == IF tuple0 # <<<<>>>> THEN path0 \o slash ELSE path0
        vroot_path == RStrip(vh.v)
        trim == /\ vh.kind = "str"
                /\ vroot_path # <<>>
                /\ StartsWith(physical_path, vroot_path)
        numels == Len(Split(vroot_path))
    IN [virtual_path |-> IF trim THEN SliceFrom(physical_path, Len(vroot_path))
                         ELSE physical_path,
        physical_path |-> physical_path,
        virtual_path_tuple |-> IF trim
                               THEN <<<<>>>> \o SliceFrom(physical_path_tuple, numels)
                               ELSE physical_path_tuple,
        physical_path_tuple |-> physical_path_tuple]

CallResourceURL ==
    /\ pc = "idle"
    /\ \E nm \in Trees, res \in Nodes :
           \E vh \in {Absent} \cup {Str(h) : h \in UrlVhRoots} :
               /\ entry' = "ResourceURL"
               /\ names' = nm
               /\ resource' = res
               /\ path' = vh
               /\ pc' = "done"
               /\ outcome' = "return"
               /\ ret' = ResourceURL(nm, res, vh)
               /\ UNCHANGED travVars
    /\ UNCHANGED auxVars

\* virtual_root(resource, request): either find_resource on the prefix of the
\* physical path, or the root of the tree
CallVirtualRoot ==
    /\ pc = "idle"
    /\ \E nm \in Trees, res \in Nodes :
           \E vh \in {Absent} \cup {Str(h) : h \in UrlVhRoots} :
               LET url_adapter == ResourceURL(nm, res, vh)
                   vpath == url_adapter.virtual_path
                   rpath == url_adapter.physical_path
               IN /\ entry' = "virtual_root"
                  /\ names' = nm
                  /\ resource' = res
                  /\ path' = vh
                  /\ IF rpath # vpath /\ EndsWith(rpath, vpath)
                     THEN /\ ret' = <<>>
                          /\ TraverseBegin(nm, res,
                                 Str(IF Len(vpath) = 0 THEN <<>>
                                     ELSE SliceTo(rpath, Len(rpath) - Len(vpath))))
                     ELSE /\ pc' = "done"
                          /\ outcome' = "return"
                          /\ ret' = find_root(res)
                          /\ UNCHANGED travVars
    /\ UNCHANGED auxVars

----------------------------------------------------------------------------
(* The pure entry points *)
PureCall(name, arg, value, raised) ==
    /\ entry' = name
    /\ path' = arg
    /\ pc' = "done"
    /\ outcome' = IF raised = "" THEN "return" ELSE raised
    /\ ret' = IF raised = "" THEN value ELSE <<>>
    /\ UNCHANGED <<names, resource, travVars>>

CallSplitPathInfo ==
    /\ pc = "idle"
    /\ \E p \in RawStrings :
           PureCall("split_path_info", Str(p), split_path_info(p), "")
    /\ UNCHANGED auxVars

CallJoinPathTuple ==
    /\ pc = "idle"
    /\ \E t \in JoinTuples :
           PureCall("_join_path_tuple", Tup(t), _join_path_tuple(t), "")
    /\ UNCHANGED auxVars

\* a percent-encoded path whose bytes are not valid UTF-8
BadQuoted == <<"/", "x", "/", "%", "C", "3">>

\* traversal_path applied to the strings _join_path_tuple produces, and to a
\* path that cannot be decoded
CallTraversalPath ==
    /\ pc = "idle"
    /\ \E p \in {_join_path_tuple(t) : t \in PathTuples} \cup {BadQuoted} :
           LET value == traversal_path(p)
           IN PureCall("traversal_path", Str(p), value,
                       IF value = <<DecodeErr>> THEN "URLDecodeError"
                       ELSE IF value = <<EncodeErr>> THEN "UnicodeEncodeError"
                       ELSE "")
    /\ UNCHANGED auxVars

----------------------------------------------------------------------------
Next ==
    \/ CallFindResourceStr
    \/ CallFindResourceTuple
    \/ CallTraverser
    \/ CallTraverserMatchdict
    \/ LoopViewSelector
    \/ LoopNoGetitem
    \/ LoopKeyError
    \/ LoopDescend
    \/ LoopExhausted
    \/ FindResourceRaise
    \/ FindResourceReturn
    \/ CallSplitPathInfo
    \/ CallJoinPathTuple
    \/ CallTraversalPath
    \/ CallResourceURL
    \/ CallVirtualRoot

Spec == Init /\ [][Next]_vars

----------------------------------------------------------------------------
(* find_root, statement by statement, on parent references the caller set. *)
(* lineage() yields the resource, then resource.__parent__, ... and ends   *)
(* after a location whose __parent__ is None.                              *)

seqVars == <<pc, entry, names, resource, path, request, root, ob, vroot, i,
             vpath_tuple, vroot_tuple, vroot_idx, subpath, lookups, result,
             outcome, ret>>

cacheVars == <<_segment_cache, join_cache, workers>>

\* the assignments of __parent__ attributes, cyclic ones included; a node
\* that is its own parent is left out, a cycle of two nodes loops the same way
ParentMaps ==
    {par \in [Nodes -> Nodes \cup {NoNode}] : \A n \in Nodes : par[n] # n}

\* find_root(resource): lineage() yields the resource itself first
CallFindRoot ==
    /\ pc = "idle"
    /\ \E par \in ParentMaps, res \in Nodes :
           /\ parents' = par
           /\ resource' = res
           /\ location' = res
    /\ entry' = "find_root"
    /\ pc' = "walk"
    /\ UNCHANGED <<names, path, travVars, outcome, ret, cacheVars>>

\* location.__parent__ is not None: the generator yields the parent
FindRootNext ==
    /\ pc = "walk"
    /\ entry = "find_root"
    /\ parents[location] # NoNode
    /\ location' = parents[location]
    /\ UNCHANGED <<seqVars, parents, cacheVars>>

\* location.__parent__ is None: resource = location; break; return resource
\* (ret holds the node returned as a one-element sequence)
FindRootBreak ==
    /\ pc = "walk"
    /\ entry = "find_root"
    /\ parents[location] = NoNode
    /\ pc' = "done"
    /\ outcome' = "return"
    /\ ret' = <<location>>
    /\ UNCHANGED <<entry, names, resource, path, travVars, auxVars>>

NextLineage ==
    \/ CallFindRoot
    \/ FindRootNext
    \/ FindRootBreak

\* what a step of the loop changes
walkVars == <<pc, location>>

\* the loop belongs to one running thread: an iteration that can be
\* executed is executed
SpecLineage ==
    Init /\ [][NextLineage]_vars /\ WF_walkVars(FindRootNext \/ FindRootBreak)

----------------------------------------------------------------------------
(* quote_path_segment and _join_path_tuple called from several threads.   *)
(* The lookup in _segment_cache, the computation of the quoted value and   *)
(* the store are separate steps of a thread; no lock is taken.             *)

\* arguments the threads pass
QuoteArgs == {Str(<<"x", "/">>), Other(<<"x", "/">>)}
SafeArgs == {PATH_SEGMENT_SAFE, PATH_SAFE}
JoinArgs == {<<>>, <<Str(<<"x", "/">>)>>, <<Other(<<"x", "/">>), Str(<<"y">>)>>}

\* the entries of the dict found under the key of another safe string too
CacheLookupAnySafe(cache, seg, safe) ==
    {e \in cache : seg.kind = "str" /\ e.segment = seg.v}

\* _segment_cache[(segment, safe)]: the entries stored under that key; a
\* segment that is not a str equals no stored key
CacheLookup(cache, seg, safe) ==
    {e \in cache : seg.kind = "str" /\ e.segment = seg.v /\ e.safe = safe}

\* _segment_cache[(segment, safe)] = result: one value per key
CacheStore(cache, seg, safe, value) ==
    {e \in cache : ~(e.segment = seg.v /\ e.safe = safe)}
        \cup {[segment |-> seg.v, safe |-> safe, value |-> value]}

\* quote_path_segment returns r to the caller of the thread: to the
\* application, or to the list comprehension of _join_path_tuple
QuoteReturned(wk, r) ==
    IF wk.call = "quote"
    THEN [wk EXCEPT !.pc = "done", !.value = r]
    ELSE IF wk.k < Len(wk.tuple)
    THEN [wk EXCEPT !.pc = "lookup", !.k = wk.k + 1,
                    !.segment = wk.tuple[wk.k + 1],
                    !.parts = Append(wk.parts, r)]
    ELSE LET joined == Join(Append(wk.parts, r)) IN
         [wk EXCEPT !.pc = "join_store", !.parts = Append(wk.parts, r),
                    !.value = IF joined # <<>> THEN joined ELSE slash]

\* quote_path_segment(segment, safe) is entered
QuoteCall ==
    \E w \in Workers, seg \in QuoteArgs, sf \in SafeArgs :
        /\ workers[w].pc = "idle"
        /\ workers' = [workers EXCEPT ![w] =
               [IdleWorker EXCEPT !.pc = "lookup", !.call = "quote",
                                  !.segment = seg, !.safe = sf]]
        /\ UNCHANGED <<seqVars, parents, location, _segment_cache, join_cache>>

\* try: return _segment_cache[(segment, safe)]   -- the key is there
QuoteHit ==
    \E w \in Workers :
        LET wk == workers[w]
            found == CacheLookup(_segment_cache, wk.segment, wk.safe) IN
        /\ wk.pc = "lookup"
        /\ found # {}
        /\ workers' = [workers EXCEPT ![w] =
               QuoteReturned([wk EXCEPT !.hit = TRUE],
                             (CHOOSE e \in found : TRUE).value)]
        /\ UNCHANGED <<seqVars, parents, location, _segment_cache, join_cache>>

\* except KeyError:   -- the key is not there
QuoteMiss ==
    \E w \in Workers :
        LET wk == workers[w] IN
        /\ wk.pc = "lookup"
        /\ CacheLookup(_segment_cache, wk.segment, wk.safe) = {}
        /\ workers' = [workers EXCEPT ![w] = [wk EXCEPT !.pc = "compute"]]
        /\ UNCHANGED <<seqVars, parents, location, _segment_cache, join_cache>>

\* segment = str(segment) unless str or bytes; result = url_quote(...)
QuoteCompute ==
    \E w \in Workers :
        LET wk == workers[w] IN
        /\ wk.pc = "compute"
        /\ workers' = [workers EXCEPT ![w] =
               [wk EXCEPT !.pc = "store", !.segment = Str(wk.segment.v),
                          !.result = url_quote(wk.segment.v, wk.safe)]]
        /\ UNCHANGED <<seqVars, parents, location, _segment_cache, join_cache>>

\* _segment_cache[(segment, safe)] = result; return result
QuoteStore ==
    \E w \in Workers :
        LET wk == workers[w] IN
        /\ wk.pc = "store"
        /\ _segment_cache' =
               CacheStore(_segment_cache, wk.segment, wk.safe, wk.result)
        /\ workers' = [workers EXCEPT ![w] = QuoteReturned(wk, wk.result)]
        /\ UNCHANGED <<seqVars, parents, location, join_cache>>

\* _join_path_tuple(tuple) is entered: the lru_cache wrapper looks the
\* argument up first
JoinCall ==
    \E w \in Workers, t \in JoinArgs :
        /\ workers[w].pc = "idle"
        /\ workers' = [workers EXCEPT ![w] =
               [IdleWorker EXCEPT !.pc = "join_lookup", !.call = "join",
                                  !.tuple = t, !.safe = PATH_SEGMENT_SAFE]]
        /\ UNCHANGED <<seqVars, parents, location, _segment_cache, join_cache>>

\* the lru_cache wrapper has a value for the argument
JoinHit ==
    \E w \in Workers :
        LET wk == workers[w]
            found == {e \in join_cache : e.tuple = wk.tuple} IN
        /\ wk.pc = "join_lookup"
        /\ found # {}
        /\ workers' = [workers EXCEPT ![w] =
               [wk EXCEPT !.pc = "done", !.hit = TRUE,
                          !.value = (CHOOSE e \in found : TRUE).value]]
        /\ UNCHANGED <<seqVars, parents, location, _segment_cache, join_cache>>

\* the wrapper has no value: the body runs, '/' for the empty tuple, else
\* quote_path_segment(x) for the first x
JoinMiss ==
    \E w \in Workers :
        LET wk == workers[w] IN
        /\ wk.pc = "join_lookup"
        /\ {e \in join_cache : e.tuple = wk.tuple} = {}
        /\ workers' = [workers EXCEPT ![w] =
               IF wk.tuple = <<>>
               THEN [wk EXCEPT !.pc = "join_store", !.value = slash]
               ELSE [wk EXCEPT !.pc = "lookup", !.k = 1,
                               !.segment = wk.tuple[1]]]
        /\ UNCHANGED <<seqVars, parents, location, _segment_cache, join_cache>>

\* the wrapper stores the value of the body and returns it
JoinStore ==
    \E w \in Workers :
        LET wk == workers[w] IN
        /\ wk.pc = "join_store"
        /\ join_cache' = {e \in join_cache : e.tuple # wk.tuple}
                             \cup {[tuple |-> wk.tuple, value |-> wk.value]}
        /\ workers' = [workers EXCEPT ![w] = [wk EXCEPT !.pc = "done"]]
        /\ UNCHANGED <<seqVars, parents, location, _segment_cache>>

\* the caller takes the value; the thread is free for its next call
WorkerReturn ==
    \E w \in Workers :
        /\ workers[w].pc = "done"
        /\ workers' = [workers EXCEPT ![w] = IdleWorker]
        /\ UNCHANGED <<seqVars, parents, location, _segment_cache, join_cache>>

NextCache ==
    \/ QuoteCall
    \/ QuoteHit
    \/ QuoteMiss
    \/ QuoteCompute
    \/ QuoteStore
    \/ JoinCall
    \/ JoinHit
    \/ JoinMiss
    \/ JoinStore
    \/ WorkerReturn

SpecCache == Init /\ [][NextCache]_vars

----------------------------------------------------------------------------
(* Reference notions used to state the properties.  They are defined from  *)
(* the tree alone (names and parents), not from the traverser's variables. *)

\* the names on the way from ancestor a (exclusive) down to node m
RefRelTuple(nm, a, m) ==
    LET l == lineage(m)
        k == CHOOSE j \in 1..Len(l) : l[j] = a
    IN [j \in 1..(k - 1) |-> nm[l[k - j]]]

RefIsAncestorOrSelf(a, m) == \E j \in 1..Len(lineage(m)) : lineage(m)[j] = a

\* the node that sits at the relative path segs below node a, or NoNode
RefNodeAt(nm, a, segs) ==
    LET hits == {m \in Nodes : RefIsAncestorOrSelf(a, m)
                                /\ RefRelTuple(nm, a, m) = segs} IN
    IF hits = {} THEN NoNode ELSE CHOOSE m \in hits : TRUE

RefPrefix(segs, n) == SubSeq(segs, 1, n)

\* segment j of segs cannot be resolved from the node at the first j-1 segments
RefUnresolvable(nm, a, segs, j) ==
    \/ (Len(segs[j]) >= 2 /\ segs[j][1] = "@" /\ segs[j][2] = "@")
    \/ ~HasGetitem(RefNodeAt(nm, a, RefPrefix(segs, j - 1)))
    \/ RefNodeAt(nm, a, RefPrefix(segs, j)) = NoNode

\* index of the first unresolvable segment, 0 when every segment resolves
RefStop(nm, a, segs) ==
    LET bad == {j \in 1..Len(segs) : RefUnresolvable(nm, a, segs, j)} IN
    IF bad = {} THEN 0 ELSE CHOOSE j \in bad : \A k \in bad : j <= k

\* the lookups made are exactly those of the first n segments, each made on
\* the node at the preceding prefix
RefLookupsAre(n) ==
    /\ Len(lookups) = n
    /\ \A k \in 1..n :
          /\ lookups[k].segment = vpath_tuple[k]
          /\ lookups[k].ob = RefNodeAt(names, root, RefPrefix(vpath_tuple, k - 1))

\* position (1-based) of the k-th slash of s, Len(s)+1 past the last one
RefSlashPos(s, k) ==
    LET ps == {q \in 1..Len(s) :
                  s[q] = "/" /\ Cardinality({r \in 1..q : s[r] = "/"}) = k} IN
    IF k = 0 THEN 0 ELSE IF ps = {} THEN Len(s) + 1 ELSE CHOOSE q \in ps : TRUE

\* the pieces of s between consecutive slashes
RefSplit(s) ==
    LET n == Cardinality({q \in 1..Len(s) : s[q] = "/"}) IN
    [k \in 1..(n + 1) |->
        SubSeq(s, RefSlashPos(s, k - 1) + 1, RefSlashPos(s, k) - 1)]

\* the left-to-right stack fold over the pieces of s
RefNormalize(s) ==
    LET segs == RefSplit(s)
        stack[k \in 0..Len(segs)] ==
            IF k = 0 THEN <<>>
            ELSE IF segs[k] = <<>> \/ segs[k] = <<".">> THEN stack[k - 1]
            ELSE IF segs[k] = <<".", ".">>
            THEN SubSeq(stack[k - 1], 1, Len(stack[k - 1]) - 1)
            ELSE Append(stack[k - 1], segs[k])
    IN stack[Len(segs)]

RefCleanName(nm, n) ==
    /\ (n = 0 \/ nm[n] # <<>>)
    /\ nm[n] # <<".">>
    /\ nm[n] # <<".", ".">>

RefCleanChain(nm, n) ==
    \A j \in 1..Len(lineage(n)) : RefCleanName(nm, lineage(n)[j])

RefAllConsumed ==
    /\ Len(lookups) = Len(vpath_tuple)
    /\ \A k \in 1..Len(lookups) : lookups[k].next # NoNode

----------------------------------------------------------------------------
(* C1: round trip.  For every node n whose ancestor chain has clean names, *)
(* find_resource called from any node with the string resource_path(n)     *)
(* returns n: the record has context n and an empty view name.             *)
C1_RoundTrip ==
    (entry = "find_resource" /\ pc = "done" /\ path.kind = "str") =>
        \A n \in Nodes :
            (path.v = resource_path(names, n) /\ RefCleanChain(names, n)) =>
                /\ outcome = "return"
                /\ result.context = n
                /\ result.view_name = <<>>

(* C2: strict reverse lookup.  find_resource returns a node exactly when   *)
(* every segment of the normalized path was consumed by a successful child *)
(* lookup, the node then sitting at that path; otherwise it raises         *)
(* KeyError.                                                               *)
C2_StrictLookup ==
    (entry = "find_resource" /\ pc = "done") =>
        /\ outcome \in {"return", "KeyError"}
        /\ (outcome = "return") <=> RefAllConsumed
        /\ (outcome = "return") =>
              result.context = RefNodeAt(names, root, vpath_tuple)

(* C3: the first segment that the current node cannot resolve (no lookup   *)
(* capability, or no such child) ends the walk: the context is the node at *)
(* the preceding segments, the view name is that segment, the subpath is   *)
(* every later segment in order, and only the segments up to and including *)
(* it were ever looked up, each on the node at its own prefix.             *)
C3_FirstUnresolvableStops ==
    (pc \in {"ret_no_getitem", "ret_key_error"}) =>
        LET j == RefStop(names, root, vpath_tuple) IN
        /\ j >= 1
        /\ result.context = RefNodeAt(names, root, RefPrefix(vpath_tuple, j - 1))
        /\ result.view_name = vpath_tuple[j]
        /\ result.subpath = SubSeq(vpath_tuple, j + 1, Len(vpath_tuple))
        /\ IF pc = "ret_key_error" THEN RefLookupsAre(j) ELSE RefLookupsAre(j - 1)

\* a missing child below the root with a later segment left over, and a node
\* without lookup capability reached after one step
C3_Witness ==
    \/ /\ pc = "ret_key_error"
       /\ result.context = root
       /\ Len(result.subpath) >= 1
       /\ Len(lookups) = 1
    \/ /\ pc = "ret_no_getitem"
       /\ result.context = 3
       /\ Len(result.subpath) >= 1
       /\ Len(lookups) = 1

(* C4: a segment that begins with '@@' ends the walk before any child      *)
(* lookup is made for it, even when the current node has a child of that   *)
(* very name: the context is the current node, the view name is the        *)
(* segment without its first two characters, the subpath is every later    *)
(* segment.                                                                *)
C4_ViewSelector ==
    (pc = "ret_view_selector") =>
        LET j == RefStop(names, root, vpath_tuple) IN
        /\ j >= 1
        /\ SubSeq(vpath_tuple[j], 1, 2) = <<"@", "@">>
        /\ result.context = RefNodeAt(names, root, RefPrefix(vpath_tuple, j - 1))
        /\ result.view_name = SubSeq(vpath_tuple[j], 3, Len(vpath_tuple[j]))
        /\ result.subpath = SubSeq(vpath_tuple, j + 1, Len(vpath_tuple))
        /\ RefLookupsAre(j - 1)

\* the context has a child named exactly like the '@@' segment, after one
\* successful step
C4_Witness ==
    /\ pc = "ret_view_selector"
    /\ Len(lookups) = 1
    /\ result.view_name = <<"x">>
    /\ \E c \in Nodes :
          /\ __parent__(c) = result.context
          /\ names[c] = <<"@", "@", "x">>

\* the supplied subpath as a sequence of segments: a string counts as its
\* non-empty pieces
RefSuppliedSegments ==
    LET sp == request.matchdict.subpath IN
    IF ~request.matchdict.present \/ sp.kind = "absent" THEN <<>>
    ELSE IF sp.kind = "tuple" THEN sp.v
    ELSE SelectSeq(RefSplit(sp.v), LAMBDA x : x # <<>>)

(* C5 as stated: when every segment of the normalized path tuple resolves, *)
(* the context is the last node reached, the view name is empty, traversed *)
(* is the whole tuple and the subpath is the caller-supplied subpath (its  *)
(* non-empty segments when it was given as one string), empty when none    *)
(* was supplied.                                                           *)
C5_FullResolutionAsStated ==
    (pc \in RetPcs /\ RefStop(names, root, vpath_tuple) = 0) =>
        /\ result.context = RefNodeAt(names, root, vpath_tuple)
        /\ result.view_name = <<>>
        /\ result.traversed = vpath_tuple
        /\ result.subpath = RefSuppliedSegments

\* the supplied subpath, a string being normalized
RefSuppliedNormalized ==
    LET sp == request.matchdict.subpath IN
    IF ~request.matchdict.present \/ sp.kind = "absent" THEN <<>>
    ELSE IF sp.kind = "tuple" THEN sp.v
    ELSE RefNormalize(sp.v)

(* C5 (amended): when every segment of the normalized path tuple resolves, *)
(* the context is the last node reached (the starting node when there are  *)
(* no segments), the view name is empty, traversed is the whole tuple, and *)
(* the subpath is the supplied subpath when it was a sequence, the         *)
(* normalized split of it when it was a single string, and empty when none *)
(* was supplied.                                                           *)
C5_FullResolution ==
    (pc \in RetPcs /\ RefStop(names, root, vpath_tuple) = 0) =>
        /\ pc = "ret_exhausted"
        /\ result.context = RefNodeAt(names, root, vpath_tuple)
        /\ result.view_name = <<>>
        /\ result.traversed = vpath_tuple
        /\ result.subpath = RefSuppliedNormalized

\* two segments resolved and a string subpath with a '..' in it
C5_Witness ==
    /\ pc = "ret_exhausted"
    /\ Len(vpath_tuple) = 2
    /\ result.context = 2
    /\ request.matchdict.present
    /\ request.matchdict.subpath.kind = "str"
    /\ Len(request.matchdict.subpath.v) > 1
    /\ result.subpath = <<<<"x">>>>

(* C6: in every record, with or without a virtual root header, traversed   *)
(* is the prefix of the normalized path tuple whose length is the number   *)
(* of successful child lookups.                                            *)
C6_TraversedIsWalked ==
    (pc \in RetPcs) =>
        result.traversed =
            SubSeq(vpath_tuple, 1,
                   Cardinality({k \in 1..Len(lookups) : lookups[k].next # NoNode}))

(* C7: with a virtual root header of k >= 1 segments that all resolve from *)
(* the root, the record has virtual_root = the node at those k segments,   *)
(* virtual_root_path = the header tuple and context = the node the         *)
(* requested path names below that node; with no header virtual_root is    *)
(* the root and virtual_root_path is empty.                                *)
C7_VirtualRoot ==
    (pc \in RetPcs /\ entry = "traverser" /\ ~request.matchdict.present) =>
        IF request.vh_root.kind = "str"
        THEN LET ht == RefNormalize(request.vh_root.v)
                 v == RefNodeAt(names, root, ht)
                 m == RefNodeAt(names, v, RefNormalize(request.PATH_INFO))
             IN (Len(ht) >= 1 /\ v # NoNode) =>
                    /\ result.virtual_root = v
                    /\ result.virtual_root_path = ht
                    /\ (m # NoNode /\ RefStop(names, v, RefNormalize(request.PATH_INFO)) = 0)
                          => result.context = m
        ELSE /\ result.virtual_root = root
             /\ result.virtual_root_path = <<>>

(* C8: every early stop (view selector, no lookup capability, missing      *)
(* child) yields a record with a non-empty view name; the view name is     *)
(* empty only when the walk consumed every segment.                        *)
C8_StopHasViewName ==
    (pc \in RetPcs) =>
        /\ (pc # "ret_exhausted") => result.view_name # <<>>
        /\ (result.view_name = <<>>) => RefAllConsumed

(* C9: split_path_info equals the left-to-right stack fold over the pieces *)
(* between slashes (empty and '.' dropped, '..' removes the last kept one  *)
(* or nothing, anything else is kept); its result never contains '', '.'   *)
(* or '..'.                                                                *)
C9_NormalizeIsFold ==
    (entry = "split_path_info" /\ pc = "done") =>
        /\ outcome = "return"
        /\ ret = RefNormalize(path.v)
        /\ \A k \in 1..Len(ret) :
              ret[k] # <<>> /\ ret[k] # <<".">> /\ ret[k] # <<".", ".">>

\* a leading '..' segment is ignored, the segments after it are kept
C9_Witness ==
    /\ entry = "split_path_info"
    /\ pc = "done"
    /\ path.v = <<".", ".", "/", "x", "/", "x">>
    /\ ret = <<<<"x">>, <<"x">>>>

(* C10: quoting round trip.  For every absolute path tuple whose segments  *)
(* are non-empty and neither '.' nor '..', traversal_path of the joined    *)
(* string returns exactly the original segments, one per input segment.    *)
C10_QuoteRoundTrip ==
    (entry = "traversal_path" /\ pc = "done") =>
        \A t \in PathTuples :
            (/\ path.v = _join_path_tuple(t)
             /\ \A k \in 2..Len(t) :
                   t[k] # <<>> /\ t[k] # <<".">> /\ t[k] # <<".", ".">>)
            => (outcome = "return" /\ ret = Tail(t))

(* C11 as stated: _join_path_tuple returns '/' for the empty tuple, and    *)
(* for every non-empty tuple, absolute or relative, a string that begins   *)
(* with '/' and consists of the encoded segments separated by '/'.         *)
C11_JoinAsStated ==
    (entry = "_join_path_tuple" /\ pc = "done") =>
        /\ ret # <<>>
        /\ ret[1] = "/"
        /\ (path.v = <<>>) => ret = <<"/">>
        /\ (path.v # <<>> /\ path.v # <<<<>>>>) =>
              \/ RefSplit(ret) = [k \in 1..Len(path.v) |-> quote_path_segment(path.v[k])]
              \/ RefSplit(ret) = <<<<>>>> \o
                     [k \in 1..Len(path.v) |-> quote_path_segment(path.v[k])]

(* C11 (amended): _join_path_tuple returns '/' for the empty tuple and for *)
(* the tuple ('',); for every other tuple it returns the encoded segments  *)
(* separated by '/', which begins with '/' exactly when the tuple is       *)
(* absolute (its first element is the '' sentinel); a relative tuple gives *)
(* a string with no leading '/'.                                           *)
C11_Join ==
    (entry = "_join_path_tuple" /\ pc = "done") =>
        /\ outcome = "return"
        /\ ret # <<>>
        /\ (path.v = <<>> \/ path.v = <<<<>>>>) => ret = <<"/">>
        /\ (path.v # <<>> /\ path.v # <<<<>>>>) =>
              /\ RefSplit(ret) = [k \in 1..Len(path.v) |-> quote_path_segment(path.v[k])]
              /\ (ret[1] = "/") <=> (path.v[1] = <<>>)

\* a relative tuple of two segments, the second needing an escape
C11_Witness ==
    /\ entry = "_join_path_tuple"
    /\ pc = "done"
    /\ path.v = <<<<"x">>, <<"x", "/">>>>
    /\ ret = <<"x", "/", "x", "%", "2", "F">>

\* the header, without trailing slashes, split into its pieces
RefHeaderTuple == RefSplit(RStrip(path.v))

\* the physical path tuple of the resource, with the trailing '' of non-roots
RefPhysicalTuple ==
    IF resource = find_root(resource) THEN <<<<>>>>
    ELSE Append(<<<<>>>> \o RefRelTuple(names, find_root(resource), resource), <<>>)

\* the header is present, non-empty and a segment-wise prefix of the
\* resource's physical path
RefHeaderIsPrefix ==
    /\ path.kind = "str"
    /\ RStrip(path.v) # <<>>
    /\ Len(RefHeaderTuple) <= Len(RefPhysicalTuple) - 1
    /\ SubSeq(RefPhysicalTuple, 1, Len(RefHeaderTuple)) = RefHeaderTuple

(* C12: virtual path of a node.  When the header is present and is a       *)
(* segment-wise prefix of the node's physical path, virtual_path_tuple is  *)
(* the physical tuple without the header's segments and virtual_path is    *)
(* its string form beginning with '/'; when the header is absent, empty or *)
(* not a segment-wise prefix, both equal the physical ones.                *)
C12_VirtualPath ==
    (entry = "ResourceURL" /\ pc = "done") =>
        /\ ret.physical_path_tuple = RefPhysicalTuple
        /\ IF RefHeaderIsPrefix
           THEN LET vt == <<<<>>>> \o SubSeq(RefPhysicalTuple, Len(RefHeaderTuple) + 1,
                                            Len(RefPhysicalTuple))
                IN /\ ret.virtual_path_tuple = vt
                   /\ ret.virtual_path = _join_path_tuple(vt)
                   /\ ret.virtual_path[1] = "/"
           ELSE /\ ret.virtual_path_tuple = ret.physical_path_tuple
                /\ ret.virtual_path = ret.physical_path

(* C13: virtual_root returns the node located at the header path when the  *)
(* node lies at or beneath that path, and the root of the tree in every    *)
(* other case (no header, or the node is not beneath the header path).     *)
C13_ComputeVirtualRoot ==
    (entry = "virtual_root" /\ pc = "done") =>
        /\ outcome = "return"
        /\ ret = IF RefHeaderIsPrefix
                 THEN RefNodeAt(names, find_root(resource), Tail(RefHeaderTuple))
                 ELSE find_root(resource)

\* the bytes of s are not UTF-8: a lead byte without its continuation byte,
\* or a continuation byte without its lead byte
RefBadUtf8(s) ==
    \E k \in 1..Len(s) :
        \/ s[k] = "b_C3" /\ (k = Len(s) \/ s[k + 1] # "b_A9")
        \/ s[k] = "b_A9" /\ (k = 1 \/ s[k - 1] # "b_C3")

\* the requested path or the header of the request cannot be decoded
RefRequestUndecodable ==
    \/ ~request.matchdict.present /\ RefBadUtf8(request.PATH_INFO)
    \/ request.vh_root.kind = "str" /\ RefBadUtf8(request.vh_root.v)

(* C14: decode failures fail fast. When the requested path or the value of *)
(* the virtual-root header cannot be decoded, the resolution aborts with   *)
(* URLDecodeError before any child lookup is made and returns no record;   *)
(* traversal_path raises URLDecodeError for an undecodable path as well.   *)
C14_DecodeFailFast ==
    /\ (entry = "traverser" /\ pc # "idle" /\ RefRequestUndecodable) =>
           /\ pc = "done"
           /\ outcome = "URLDecodeError"
           /\ lookups = <<>>
           /\ result = NoResult
    /\ (entry = "traversal_path" /\ pc = "done"
          /\ RefBadUtf8(unquote_bytes_to_wsgi(path.v))) =>
           outcome = "URLDecodeError"

\* the header names a node of the tree through k >= 1 segments
RefVrootNode == RefNodeAt(names, root, RefNormalize(request.vh_root.v))

(* C17: virtual-root containment. With a header of k >= 1 segments that    *)
(* all resolve, for every requested path, '..' segments included, the      *)
(* normalized combined tuple begins with the header tuple, the context is  *)
(* the virtual-root node or one of its descendants, and virtual_root is    *)
(* the node at the header path.                                            *)
C17_VrootContainment ==
    (/\ entry = "traverser"
     /\ pc \in RetPcs
     /\ ~request.matchdict.present
     /\ request.vh_root.kind = "str"
     /\ Len(RefNormalize(request.vh_root.v)) >= 1
     /\ RefVrootNode # NoNode) =>
        LET ht == RefNormalize(request.vh_root.v) IN
        /\ Len(vpath_tuple) >= Len(ht)
        /\ RefPrefix(vpath_tuple, Len(ht)) = ht
        /\ RefIsAncestorOrSelf(RefVrootNode, result.context)
        /\ result.virtual_root = RefVrootNode

\* the parentless node reached from n by following par, NoNode when more
\* than fuel steps do not reach one
RECURSIVE RefWalk(_, _, _)
RefWalk(par, n, fuel) ==
    IF par[n] = NoNode THEN n
    ELSE IF fuel = 0 THEN NoNode
    ELSE RefWalk(par, par[n], fuel - 1)

\* the parent chain of n is acyclic
RefAcyclic(par, n) == RefWalk(par, n, Cardinality(Nodes)) # NoNode

(* C15: the lineage walk terminates. For every start node find_root        *)
(* returns; on an acyclic parent chain it returns the one ancestor-or-self *)
(* without a parent, and on a cyclic chain it stops as well instead of     *)
(* looping forever.                                                        *)
C15_LineageTerminates ==
    /\ []((entry = "find_root" /\ pc = "done" /\ RefAcyclic(parents, resource))
            => ret = <<RefWalk(parents, resource, Cardinality(Nodes))>>)
    /\ [](entry = "find_root" => <>(pc = "done"))

\* what the call of a thread returns without any cache
RefUncached(wk) ==
    IF wk.call = "quote" THEN url_quote(wk.segment.v, wk.safe)
    ELSE _join_path_tuple([k \in 1..Len(wk.tuple) |-> wk.tuple[k].v])

(* C16: cache transparency under concurrency. In every interleaving of     *)
(* quote_path_segment and _join_path_tuple calls of the threads, every     *)
(* entry of _segment_cache maps its key (segment, safe) to the value       *)
(* url_quote computes for it, and every finished call has returned the     *)
(* value the uncached function computes, hit or miss.                      *)
C16_CacheTransparent ==
    /\ \A e \in _segment_cache : e.value = url_quote(e.segment, e.safe)
    /\ \A e \in join_cache :
           e.value = _join_path_tuple([k \in 1..Len(e.tuple) |-> e.tuple[k].v])
    /\ \A w \in Workers :
           workers[w].pc = "done" => workers[w].value = RefUncached(workers[w])

\* two threads missed the same key and both computed its value: one has
\* stored and returned, the other is about to store again; and a thread
\* was served from the cache
C16_Witness ==
    /\ \E w1, w2 \in Workers :
           /\ w1 # w2
           /\ workers[w1].pc = "done" /\ workers[w1].call = "quote"
           /\ ~workers[w1].hit
           /\ workers[w2].pc = "store" /\ workers[w2].call = "quote"
           /\ workers[w2].segment = workers[w1].segment
           /\ workers[w2].safe = workers[w1].safe
           /\ workers[w1].safe = PATH_SAFE
           /\ CacheLookup(_segment_cache, workers[w1].segment, PATH_SAFE) # {}
    /\ Cardinality(_segment_cache) >= 2

====
